---- MODULE Spec2Model ----
(***************************************************************************)
(* scripts/checks/run-clang-tidy.py: tidy(), git_changed_lines(),          *)
(* Multimap and check_output(), as a state machine.                        *)
(*                                                                         *)
(* Python strings are TLA+ strings; a character of s is SubSeq(s, i, i).   *)
(* The regular expressions of the script are operators over strings that   *)
(* decide the same language on the characters used here.                   *)
(***************************************************************************)
EXTENDS Integers, Sequences, FiniteSets, TLC

VARIABLES
    pc,             \* where tidy() is: "tidy", "git_changed_lines", "print", "run", "report", "done", "raised"
    commit,         \* args.commit: None or a revision
    in_gha,         \* os.environ.get("GITHUB_ACTIONS") is not None
    diff,           \* the lines of the git diff output the loop has consumed, in order
    file,           \* git_changed_lines: the local `file`
    changed_lines,  \* git_changed_lines: the Multimap
    lines,          \* tidy: the local `lines` (the line-filter argument)
    calls,          \* the subprocess commands util.run was given, in order
    status,         \* tidy: exit status of the clang-tidy subprocess
    stdout,         \* tidy: standard output of the clang-tidy subprocess
    printed,        \* what the script printed, one entry per print()
    returned,       \* <<>> while running, <<code>> once tidy returned code
    exc,            \* "" or the exception that ended the run
    prev            \* <<>>, or <<r>> with r the run completed before this one (SpecRuns)

vars == <<pc, commit, in_gha, diff, file, changed_lines, lines, calls,
          status, stdout, printed, returned, exc, prev>>

(***************************************************************************)
(* Bounds of the model.                                                    *)
(***************************************************************************)
\* longest diff, in lines
MaxDiffLen == 4
\* longest clang-tidy output, in lines
MaxOutLen == 2

(***************************************************************************)
(* Python values and string methods.                                       *)
(***************************************************************************)
None == "<None>"
Unset == "<unset>"

Range(s) == {s[i] : i \in 1..Len(s)}

\* s[i-1:i]: the character at i, "" outside of s
At(s, i) == IF 1 <= i /\ i <= Len(s) THEN SubSeq(s, i, i) ELSE ""

\* s[i-1:j]: a slice is cut at the end of s
Slice(s, i, j) == SubSeq(s, i, IF j <= Len(s) THEN j ELSE Len(s))

From(s, i) == SubSeq(s, i, Len(s))

\* str.startswith; also re.match of a literal pattern anchored with ^
startswith(s, p) == Len(s) >= Len(p) /\ SubSeq(s, 1, Len(p)) = p

endswith(s, p) == Len(s) >= Len(p) /\ SubSeq(s, Len(s) - Len(p) + 1, Len(s)) = p

\* the characters \s matches and str.split() splits on
Whitespace == {" ", "\t", "\r", "\n", "\f"}

Digits == {"0", "1", "2", "3", "4", "5", "6", "7", "8", "9"}

DigitVal(c) ==
    CASE c = "0" -> 0 [] c = "1" -> 1 [] c = "2" -> 2 [] c = "3" -> 3
      [] c = "4" -> 4 [] c = "5" -> 5 [] c = "6" -> 6 [] c = "7" -> 7
      [] c = "8" -> 8 [] c = "9" -> 9

DigitChar(n) ==
    CASE n = 0 -> "0" [] n = 1 -> "1" [] n = 2 -> "2" [] n = 3 -> "3"
      [] n = 4 -> "4" [] n = 5 -> "5" [] n = 6 -> "6" [] n = 7 -> "7"
      [] n = 8 -> "8" [] n = 9 -> "9"

\* index of the first occurrence of p in s at or after i, 0 if there is none
find(s, p, i) ==
    LET hits == {k \in i..(Len(s) - Len(p) + 1) : SubSeq(s, k, k + Len(p) - 1) = p}
    IN  IF hits = {} THEN 0 ELSE CHOOSE k \in hits : \A j \in hits : k <= j

\* str.split(sep): the pieces between the occurrences of sep, empty ones kept
RECURSIVE split_sep(_, _)
split_sep(s, sep) ==
    LET k == find(s, sep, 1)
    IN  IF k = 0 THEN <<s>>
        ELSE <<SubSeq(s, 1, k - 1)>> \o split_sep(From(s, k + Len(sep)), sep)

\* str.split(): the maximal runs of non-whitespace characters
RECURSIVE split(_)
split(s) ==
    IF s = "" THEN <<>>
    ELSE IF At(s, 1) \in Whitespace THEN split(From(s, 2))
    ELSE LET stops == {k \in 1..Len(s) : At(s, k) \in Whitespace}
             end == IF stops = {} THEN Len(s) + 1
                    ELSE CHOOSE k \in stops : \A j \in stops : k <= j
         IN  <<SubSeq(s, 1, end - 1)>> \o split(From(s, end))

\* value of a string of decimal digits
RECURSIVE DecimalValue(_)
DecimalValue(s) ==
    IF s = "" THEN 0
    ELSE 10 * DecimalValue(SubSeq(s, 1, Len(s) - 1)) + DigitVal(At(s, Len(s)))

\* int(x) of a string: an optional sign and at least one digit, else ValueError.
\* (Underscores between digits and surrounding blanks, which int() also accepts,
\* do not occur in the fields drawn here.)
int(x) ==
    LET signed == x # "" /\ At(x, 1) \in {"+", "-"}
        body == IF signed THEN From(x, 2) ELSE x
        ok == body # "" /\ \A i \in 1..Len(body) : At(body, i) \in Digits
    IN  IF ~ok THEN [ok |-> FALSE, val |-> 0]
        ELSE [ok |-> TRUE,
              val |-> IF signed /\ At(x, 1) = "-" THEN 0 - DecimalValue(body)
                      ELSE DecimalValue(body)]

\* str(n) of an integer, as json.dumps writes it
RECURSIVE Decimal(_)
Decimal(n) ==
    IF n < 0 THEN "-" \o Decimal(0 - n)
    ELSE IF n < 10 THEN DigitChar(n)
    ELSE Decimal(n \div 10) \o DigitChar(n % 10)

\* sep.join(parts)
RECURSIVE join(_, _)
join(sep, parts) ==
    IF parts = <<>> THEN ""
    ELSE IF Len(parts) = 1 THEN parts[1]
    ELSE parts[1] \o sep \o join(sep, Tail(parts))

\* str.removeprefix
removeprefix(s, p) == IF startswith(s, p) THEN From(s, Len(p) + 1) ELSE s

\* the index of the last character of the longest run of characters of `set`
\* that starts at i (i - 1 when s[i] is not in `set`)
RECURSIVE run_end(_, _, _)
run_end(s, i, set) ==
    IF i > Len(s) \/ At(s, i) \notin set THEN i - 1 ELSE run_end(s, i + 1, set)

\* the index of the first character of the longest run of characters of `set`
\* that ends at i (i + 1 when s[i] is not in `set`)
RECURSIVE run_start(_, _, _)
run_start(s, i, set) ==
    IF i < 1 \/ At(s, i) \notin set THEN i + 1 ELSE run_start(s, i - 1, set)

(***************************************************************************)
(* class Multimap(dict).  A dict is its keys in insertion order and the    *)
(* value of each key.                                                      *)
(***************************************************************************)
EmptyDict == [keys |-> <<>>, item |-> <<>>]

\* __setitem__ of a map that keeps each value of a key once
Multimap_setitem_dedup(self, key, value) ==
    IF key \notin Range(self.keys)
    THEN [keys |-> Append(self.keys, key),
          item |-> [k \in Range(self.keys) \cup {key} |->
                        IF k = key THEN <<value>> ELSE self.item[k]]]
    ELSE IF value \in Range(self.item[key]) THEN self
    ELSE [keys |-> self.keys,
          item |-> [self.item EXCEPT ![key] = Append(@, value)]]

Multimap_setitem(self, key, value) ==
    IF key \notin Range(self.keys)
    THEN [keys |-> Append(self.keys, key),
          item |-> [k \in Range(self.keys) \cup {key} |->
                        IF k = key THEN <<value>> ELSE self.item[k]]]
    ELSE [keys |-> self.keys,
          item |-> [self.item EXCEPT ![key] = Append(@, value)]]

\* dict.items(): the (key, value) pairs in insertion order
items(self) == [i \in 1..Len(self.keys) |-> <<self.keys[i], self.item[self.keys[i]]>>]

(***************************************************************************)
(* git_changed_lines                                                       *)
(***************************************************************************)
\* re.match(r"^\+\+\+ b/.*", line)
match_new_file(line) == startswith(line, "+++ b/")

SourceSuffixes == {".cpp", ".h", ".hpp"}

\* re.match(r"^\+\+\+ b/(.*(\.cpp|\.h|\.hpp))$", line); a line holds no newline
match_source_file(line) ==
    startswith(line, "+++ b/") /\ \E x \in SourceSuffixes : endswith(From(line, 7), x)

\* match.group(1) of match_source_file
source_file_group(line) == From(line, 7)

\* re.match(r"^@@", line)
match_hunk(line) == startswith(line, "@@")

\* lines 41-47 without the first pattern: only a source path changes `file`
file_after_markers_no_reset(f, line) ==
    IF match_source_file(line) THEN source_file_group(line) ELSE f

\* lines 41-47: the value of `file` once the two marker patterns were tried
file_after_markers(f, line) ==
    IF match_source_file(line) THEN source_file_group(line)
    ELSE IF match_new_file(line) THEN ""
    ELSE f

\* lines 51-55 with an inclusive end, start + count - 1
hunk_range_inclusive(line) ==
    LET fields == split(line)
    IN  IF Len(fields) < 3 THEN [exc |-> "IndexError", range |-> <<>>]
        ELSE LET lspan0 == split_sep(fields[3], ",")
                 lspan == IF Len(lspan0) <= 1 THEN Append(lspan0, "0") ELSE lspan0
                 start == int(lspan[1])
                 count == int(lspan[2])
             IN  IF ~start.ok \/ ~count.ok
                 THEN [exc |-> "ValueError", range |-> <<>>]
                 ELSE [exc |-> "", range |-> <<start.val, start.val + count.val - 1>>]

\* lines 51-55 with the parsing errors caught: a span that does not parse is [0, 0]
hunk_range_lenient(line) ==
    LET fields == split(line)
    IN  IF Len(fields) < 3 THEN [exc |-> "", range |-> <<0, 0>>]
        ELSE LET lspan0 == split_sep(fields[3], ",")
                 lspan == IF Len(lspan0) <= 1 THEN Append(lspan0, "0") ELSE lspan0
                 start == int(lspan[1])
                 count == int(lspan[2])
             IN  IF ~start.ok \/ ~count.ok
                 THEN [exc |-> "", range |-> <<0, 0>>]
                 ELSE [exc |-> "", range |-> <<start.val, start.val + count.val>>]

\* lines 51-55: the range of a hunk header, or the exception it raises
hunk_range(line) ==
    LET fields == split(line)
    IN  IF Len(fields) < 3 THEN [exc |-> "IndexError", range |-> <<>>]
        ELSE LET lspan0 == split_sep(fields[3], ",")
                 \* lspan.append(0): int(0) is int("0")
                 lspan == IF Len(lspan0) <= 1 THEN Append(lspan0, "0") ELSE lspan0
                 start == int(lspan[1])
                 count == int(lspan[2])
             IN  IF ~start.ok \/ ~count.ok
                 THEN [exc |-> "ValueError", range |-> <<>>]
                 ELSE [exc |-> "", range |-> <<start.val, start.val + count.val>>]

\* json.dumps of one {"name": key, "lines": value} record
dumps_record(key, value) ==
    "{\"name\": \"" \o key \o "\", \"lines\": ["
      \o join(", ", [i \in 1..Len(value) |->
                       "[" \o Decimal(value[i][1]) \o ", " \o Decimal(value[i][2]) \o "]"])
      \o "]}"

\* line 58 over the items in reverse
document_reversed(d) ==
    [i \in 1..Len(items(d)) |->
        [name |-> items(d)[Len(items(d)) + 1 - i][1],
         lines |-> items(d)[Len(items(d)) + 1 - i][2]]]

\* line 58: [{"name": key, "lines": value} for key, value in changed_lines.items()]
document(d) ==
    [i \in 1..Len(items(d)) |-> [name |-> items(d)[i][1], lines |-> items(d)[i][2]]]

\* line 57: json.dumps of such a list, with the default separators
json_dumps(doc) ==
    "[" \o join(", ", [i \in 1..Len(doc) |-> dumps_record(doc[i].name, doc[i].lines)])
        \o "]"

\* lines 73-77: the argument made of the returned document
line_filter(json) == "'--line-filter=" \o json \o "'"

(***************************************************************************)
(* Inputs: what git diff and clang-tidy may print, and the arguments.      *)
(***************************************************************************)
Commits == {None, "HEAD"}

\* new-side paths of the diff's file sections
NewPaths == {"x.cpp", "y.h", "z.py"}

NewFileMarker(path) == "+++ b/" \o path

\* new-side marker of a deleted file's section
DevNullMarker == "+++ /dev/null"

\* new-side spans "+start,count" and "+start" of the hunk headers
HunkSpans == {[start |-> 12, count |-> 3], [start |-> 7, count |-> 0]}

HunkStarts == {15}

HunkHeader(start, count) ==
    "@@ -" \o Decimal(start) \o " +" \o Decimal(start) \o "," \o Decimal(count) \o " @@"

HunkHeaderNoCount(start) ==
    "@@ -" \o Decimal(start) \o " +" \o Decimal(start) \o " @@"

\* new-side spans whose count or start is no integer, and a header cut before
\* its new side
BadSpans == {"2,x", "x"}

HunkHeaderOf(span) == "@@ -1 +" \o span \o " @@"

TruncatedHunk == "@@ -1"

MalformedHunks == {HunkHeaderOf(b) : b \in BadSpans} \cup {TruncatedHunk}

DiffLines ==
    {NewFileMarker(p) : p \in NewPaths} \cup {DevNullMarker}
      \cup {HunkHeader(h.start, h.count) : h \in HunkSpans}
      \cup {HunkHeaderNoCount(c) : c \in HunkStarts}
      \cup MalformedHunks

(***************************************************************************)
(* util.run(command): one synchronous subprocess per call; it returns      *)
(* (status, stdout, stderr) whatever the status is.                        *)
(***************************************************************************)
util_run(log, command) == Append(log, command)

(***************************************************************************)
(* check_output and the annotation of clang-tidy's output                  *)
(***************************************************************************)
\* re.match(r"^/.* warning: ", output): the match starts at the first character
\* of the whole output and "." matches no newline
check_output(output) ==
    LET nl == find(output, "\n", 1)
        first == IF nl = 0 THEN output ELSE SubSeq(output, 1, nl - 1)
    IN  startswith(first, "/") /\ find(first, " warning: ", 2) # 0

\* the characters of [a-z0-9,\-]
RuleChars ==
    Digits \cup {",", "-"} \cup
    {"a", "b", "c", "d", "e", "f", "g", "h", "i", "j", "k", "l", "m",
     "n", "o", "p", "q", "r", "s", "t", "u", "v", "w", "x", "y", "z"}

Severities == {"error", "warning"}

NoMatch == [ok |-> FALSE, file |-> "", line |-> "", col |-> "", severity |-> "",
            message |-> "", rule |-> ""]

\* The head of clang_tidy_pattern, ^(.*):(\d+):(\d+):\s+(error|warning):\s+, with
\* the first group ending before the ":" at k; sp is where the tail " \[" starts.
\* \d+ and the first \s+ are followed by what they cannot match, so they take the
\* whole run; the second \s+ gives back the blank that " \[" needs.
match_head(s, k, sp) ==
    LET d1 == run_end(s, k + 1, Digits)
        d2 == run_end(s, d1 + 2, Digits)
        w1 == run_end(s, d2 + 2, Whitespace)
        sev == IF Slice(s, w1 + 1, w1 + 5) = "error" THEN "error"
               ELSE IF Slice(s, w1 + 1, w1 + 7) = "warning" THEN "warning"
               ELSE ""
        colon == w1 + Len(sev) + 1
        w == run_end(s, colon + 1, Whitespace)
        w2 == IF w < sp - 1 THEN w ELSE sp - 1
    IN  [ok |-> /\ At(s, k) = ":"
                /\ d1 >= k + 1 /\ At(s, d1 + 1) = ":"
                /\ d2 >= d1 + 2 /\ At(s, d2 + 1) = ":"
                /\ w1 >= d2 + 2
                /\ sev \in Severities
                /\ At(s, colon) = ":"
                /\ w2 >= colon + 1,
         d1 |-> d1, d2 |-> d2, severity |-> sev, w2 |-> w2]

\* re.match(clang_tidy_pattern, s) for a line s (no newline in it):
\*   ^(.*):(\d+):(\d+):\s+(error|warning):\s+(.*) \[([a-z0-9,\-]+)\]\s*$
\* The tail " [rule]\s*$" is fixed by the end of the line; the first group is
\* greedy, so it ends at the last ":" from which the rest matches.
match_clang_tidy(s) ==
    LET n == Len(s)
        close == run_start(s, n, Whitespace) - 1        \* the "]"
        rule1 == run_start(s, close - 1, RuleChars)     \* first character of the rule
        sp == rule1 - 2                                 \* the " " before "["
        tail_ok == /\ close >= 1 /\ At(s, close) = "]"
                   /\ rule1 <= close - 1
                   /\ sp >= 1 /\ At(s, rule1 - 1) = "[" /\ At(s, sp) = " "
        ks == IF tail_ok
              THEN {k \in 1..n : At(s, k) = ":" /\ match_head(s, k, sp).ok}
              ELSE {}
    IN  IF ks = {} THEN NoMatch
        ELSE LET k == CHOOSE x \in ks : \A y \in ks : x >= y
                 h == match_head(s, k, sp)
             IN  [ok |-> TRUE,
                  file |-> SubSeq(s, 1, k - 1),
                  line |-> SubSeq(s, k + 1, h.d1),
                  col |-> SubSeq(s, h.d1 + 2, h.d2),
                  severity |-> h.severity,
                  message |-> SubSeq(s, h.w2 + 1, sp - 1),
                  rule |-> SubSeq(s, rule1, close - 1)]

KnownPrefix == "/__w/velox/velox/"

\* lines 93-99: what one line of the output makes the script print
annotation(stdout_line) ==
    LET m == match_clang_tidy(stdout_line)
    IN  IF ~m.ok THEN <<>>
        ELSE <<"::" \o m.severity \o " file=" \o removeprefix(m.file, KnownPrefix)
                 \o ",line=" \o m.line \o ",col=" \o m.col \o ",title=" \o m.rule
                 \o "::" \o m.message>>

\* lines 92-99: the loop over stdout.split("\n")
RECURSIVE annotations(_)
annotations(stdout_lines) ==
    IF stdout_lines = <<>> THEN <<>>
    ELSE annotation(Head(stdout_lines)) \o annotations(Tail(stdout_lines))

\* what clang-tidy's exit status and standard output may be
ExitStatuses == {0, 1}

\* the diagnostics clang-tidy may report; a note carries no [rule]
Diagnostics ==
    {[path |-> "/__w/velox/velox/a.cpp", line |-> 10, col |-> 3,
      severity |-> "warning", message |-> "unused variable", rule |-> "rule-x"],
     [path |-> "/tmp/__w/velox/velox/b.h", line |-> 4, col |-> 1,
      severity |-> "error", message |-> "no member", rule |-> "clang-diagnostic-error"],
     [path |-> "/__w/velox/velox/a.cpp", line |-> 12, col |-> 5,
      severity |-> "warning", message |-> "null dereference",
      rule |-> "clang-analyzer-core.NullDereference"],
     [path |-> "/__w/velox/velox/a.cpp", line |-> 9, col |-> 7,
      severity |-> "note", message |-> "declared here", rule |-> ""]}

\* the line clang-tidy prints for a diagnostic
DiagnosticLine(d) ==
    d.path \o ":" \o Decimal(d.line) \o ":" \o Decimal(d.col) \o ": " \o d.severity
      \o ": " \o d.message \o (IF d.rule = "" THEN "" ELSE " [" \o d.rule \o "]")

DiagnosticSeqs == UNION {[1..n -> Diagnostics] : n \in 0..MaxOutLen}

\* the output that reports the diagnostics ds, one per line
RECURSIVE ToolOutput(_)
ToolOutput(ds) ==
    IF ds = <<>> THEN "" ELSE DiagnosticLine(Head(ds)) \o "\n" \o ToolOutput(Tail(ds))

ToolOutputs == {ToolOutput(ds) : ds \in DiagnosticSeqs}

\* line 72 with args.fix not "fix"
fix == ""

(***************************************************************************)
(* tidy                                                                    *)
(***************************************************************************)
Init ==
    /\ pc = "tidy"
    /\ commit \in Commits
    /\ in_gha \in BOOLEAN
    /\ diff = <<>>
    /\ file = ""
    /\ changed_lines = EmptyDict
    /\ lines = Unset
    /\ calls = <<>>
    /\ status = 0
    /\ stdout = ""
    /\ printed = <<>>
    /\ returned = <<>>
    /\ exc = ""
    /\ prev = <<>>

\* lines 73-77, args.commit is None
tidy_no_commit ==
    /\ pc = "tidy"
    /\ commit = None
    /\ lines' = ""
    /\ pc' = "print"
    /\ UNCHANGED <<commit, in_gha, diff, file, changed_lines, calls, status,
                   stdout, printed, returned, exc, prev>>

\* lines 74, 33-37: git_changed_lines(args.commit) starts and runs git diff
git_changed_lines_call ==
    /\ pc = "tidy"
    /\ commit # None
    /\ file' = ""
    /\ changed_lines' = EmptyDict
    /\ diff' = <<>>
    /\ calls' = util_run(calls, "git diff --text --unified=0 " \o commit)
    /\ pc' = "git_changed_lines"
    /\ UNCHANGED <<commit, in_gha, lines, status, stdout, printed, returned, exc, prev>>

\* lines 37-55: one turn of the loop, on the next line of the diff
git_changed_lines_line(line) ==
    /\ pc = "git_changed_lines"
    /\ Len(diff) < MaxDiffLen
    /\ diff' = Append(diff, line)
    /\ file' = file_after_markers(file, line)
    /\ IF match_hunk(line) /\ file' # ""
       THEN LET r == hunk_range(line)
            IN  IF r.exc # ""
                THEN /\ exc' = r.exc
                     /\ pc' = "raised"
                     /\ UNCHANGED changed_lines
                ELSE /\ changed_lines' = Multimap_setitem(changed_lines, file', r.range)
                     /\ UNCHANGED <<pc, exc>>
       ELSE UNCHANGED <<changed_lines, pc, exc>>
    /\ UNCHANGED <<commit, in_gha, lines, calls, status, stdout, printed, returned, prev>>

\* lines 57-59 and 73-77: the loop ended; the document is returned and wrapped.
\* The frame's locals are gone; `diff`, what git printed, is remembered until
\* it is printed.
git_changed_lines_return ==
    /\ pc = "git_changed_lines"
    /\ lines' = line_filter(json_dumps(document(changed_lines)))
    /\ file' = ""
    /\ changed_lines' = EmptyDict
    /\ pc' = "print"
    /\ UNCHANGED <<commit, in_gha, diff, calls, status, stdout, printed, returned,
                   exc, prev>>

\* line 79: print(lines)
tidy_print ==
    /\ pc = "print"
    /\ printed' = Append(printed, lines)
    /\ diff' = <<>>
    /\ pc' = "run"
    /\ UNCHANGED <<commit, in_gha, file, changed_lines, lines, calls, status, stdout,
                   returned, exc, prev>>

\* lines 81-85 with clang-tidy run again when it exits non-zero
tidy_run_retry(st, out) ==
    /\ pc = "run"
    /\ calls' = util_run(calls,
                    "xargs clang-tidy -p=_build/release/ --format-style=file "
                      \o "-header-filter='.*' --quiet " \o fix \o " " \o lines)
    /\ status' = st
    /\ stdout' = out
    /\ pc' = IF st # 0 THEN "run" ELSE "report"
    /\ UNCHANGED <<commit, in_gha, diff, file, changed_lines, lines, printed,
                   returned, exc, prev>>

\* lines 81-85: clang-tidy runs to its end
tidy_run(st, out) ==
    /\ pc = "run"
    /\ calls' = util_run(calls,
                    "xargs clang-tidy -p=_build/release/ --format-style=file "
                      \o "-header-filter='.*' --quiet " \o fix \o " " \o lines)
    /\ status' = st
    /\ stdout' = out
    /\ pc' = "report"
    /\ UNCHANGED <<commit, in_gha, diff, file, changed_lines, lines, printed,
                   returned, exc, prev>>

\* lines 87-103 with a failed subprocess reported as 1
tidy_report_status ==
    /\ pc = "report"
    /\ printed' = IF in_gha THEN printed \o annotations(split_sep(stdout, "\n"))
                  ELSE printed
    /\ returned' = <<IF check_output(stdout) /\ status = 0 THEN 0 ELSE 1>>
    /\ pc' = "done"
    /\ UNCHANGED <<commit, in_gha, diff, file, changed_lines, lines, calls,
                   status, stdout, exc, prev>>

\* lines 87-103: the annotations when in GitHub Actions, then the exit status
tidy_report ==
    /\ pc = "report"
    /\ printed' = IF in_gha THEN printed \o annotations(split_sep(stdout, "\n"))
                  ELSE printed
    /\ returned' = <<IF check_output(stdout) THEN 0 ELSE 1>>
    /\ pc' = "done"
    /\ UNCHANGED <<commit, in_gha, diff, file, changed_lines, lines, calls,
                   status, stdout, exc, prev>>

Next ==
    \/ tidy_no_commit
    \/ git_changed_lines_call
    \/ \E line \in DiffLines : git_changed_lines_line(line)
    \/ git_changed_lines_return
    \/ tidy_print
    \/ \E st \in ExitStatuses, out \in ToolOutputs : tidy_run(st, out)
    \/ tidy_report

Spec == Init /\ [][Next]_vars

(***************************************************************************)
(* Two runs of the script, one after the other, to compare their exit      *)
(* statuses; both without --commit.                                        *)
(***************************************************************************)
\* lines 117-122: the process exits with tidy's status; the script is run again
next_run ==
    /\ pc = "done"
    /\ prev = <<>>
    /\ prev' = <<[in_gha |-> in_gha, status |-> status, stdout |-> stdout,
                  printed |-> printed, returned |-> returned]>>
    /\ pc' = "tidy"
    /\ in_gha' \in BOOLEAN
    /\ lines' = Unset
    /\ calls' = <<>>
    /\ status' = 0
    /\ stdout' = ""
    /\ printed' = <<>>
    /\ returned' = <<>>
    /\ UNCHANGED <<commit, diff, file, changed_lines, exc>>

InitRuns == Init /\ commit = None

NextRuns ==
    \/ tidy_no_commit
    \/ tidy_print
    \/ \E st \in ExitStatuses, out \in ToolOutputs : tidy_run(st, out)
    \/ tidy_report
    \/ next_run

SpecRuns == InitRuns /\ [][NextRuns]_vars

(***************************************************************************)
(* Properties of git_changed_lines.                                        *)
(***************************************************************************)
\* the ranges recorded for path f in the Multimap d
RangesOf(d, f) == IF f \in Range(d.keys) THEN d.item[f] ELSE <<>>

\* a path ending in .cpp, .h or .hpp
IsSourcePath(p) == endswith(p, ".cpp") \/ endswith(p, ".h") \/ endswith(p, ".hpp")

\* this step is a turn of the loop, and consumes `line`
Consumes(line) == pc = "git_changed_lines" /\ diff' = Append(diff, line)

\* this step appends range r to f's list and changes nothing else of the Multimap
AppendsOnly(f, r) ==
    /\ RangesOf(changed_lines', f) = Append(RangesOf(changed_lines, f), r)
    /\ Range(changed_lines'.keys) = Range(changed_lines.keys) \cup {f}
    /\ \A g \in Range(changed_lines.keys) \ {f} :
           RangesOf(changed_lines', g) = RangesOf(changed_lines, g)

\* C1: a hunk header with new-side span "+c,d" consumed while the current file
\* is f appends exactly the one range [c, c+d] to f's list, also when d = 0;
\* with the count left out ("+c") the range appended is [c, c].
C1_HunkAppendsItsRange ==
    [][\A line \in DiffLines :
          (Consumes(line) /\ file' # "") =>
             /\ \A h \in HunkSpans :
                    line = HunkHeader(h.start, h.count) =>
                        AppendsOnly(file', <<h.start, h.start + h.count>>)
             /\ \A c \in HunkStarts :
                    line = HunkHeaderNoCount(c) => AppendsOnly(file', <<c, c>>)]_vars

\* a hunk with no added line was consumed under x.cpp and left [7, 7]
C1_Witness ==
    /\ pc = "git_changed_lines"
    /\ diff = <<NewFileMarker("x.cpp"), HunkHeaderNoCount(15), HunkHeader(7, 0)>>
    /\ changed_lines.keys = <<"x.cpp">>
    /\ changed_lines.item["x.cpp"] = <<<<15, 15>>, <<7, 7>>>>

\* C2: a "+++ b/<path>" line whose path is no source path empties the current
\* file whatever it was; while the current file is empty an "@@" line records
\* nothing, and the current file stays empty until a "+++ b/<path>" line with a
\* source path sets it; so every key of the Multimap is a source path.
C2_NonSourceMarkerIgnoresHunks ==
    [][\A line \in DiffLines :
          Consumes(line) =>
             /\ (\E p \in NewPaths : line = NewFileMarker(p) /\ ~IsSourcePath(p))
                    => file' = ""
             /\ (file = "" /\ startswith(line, "@@")) => changed_lines' = changed_lines
             /\ (file = "" /\ file' # "") =>
                    \E p \in NewPaths :
                        IsSourcePath(p) /\ line = NewFileMarker(p) /\ file' = p
             /\ \A k \in Range(changed_lines'.keys) : IsSourcePath(k)]_vars

\* after x.cpp's marker, z.py's marker emptied the current file and two hunks
\* were ignored
C2_Witness ==
    /\ pc = "git_changed_lines"
    /\ diff = <<NewFileMarker("x.cpp"), NewFileMarker("z.py"),
                HunkHeader(12, 3), HunkHeaderNoCount(15)>>
    /\ file = ""
    /\ changed_lines = EmptyDict

\* the new-side marker ("+++ ...") of the file section that line i of d is in
SectionMarker(d, i) ==
    LET ms == {j \in 1..(i - 1) : startswith(d[j], "+++ ")}
    IN  IF ms = {} THEN "" ELSE d[CHOOSE j \in ms : \A k \in ms : j >= k]

\* C3: a range recorded under f comes from an "@@" line whose own file section
\* holds the marker "+++ b/f"; a hunk of a section without a "+++ b/" line
\* (a deleted file's "+++ /dev/null") records nothing.
C3_HunkOutsideSourceSectionSkipped ==
    [][\A line \in DiffLines :
          (Consumes(line) /\ changed_lines' # changed_lines) =>
              SectionMarker(diff', Len(diff')) = NewFileMarker(file')]_vars

\* of each line of a diff: <<p>> if it is the marker "+++ b/p", <<>> otherwise
RefMarkerPath ==
    [line \in DiffLines |->
        IF \E p \in NewPaths : line = NewFileMarker(p)
        THEN <<CHOOSE p \in NewPaths : line = NewFileMarker(p)>>
        ELSE <<>>]

\* the current file while line i of diff d is processed: the path of the last
\* "+++ b/<path>" line up to i if it is a source path, none otherwise
RefCurrentFile(d, i) ==
    LET ms == {j \in 1..i : RefMarkerPath[d[j]] # <<>>}
        last == CHOOSE j \in ms : \A k \in ms : j >= k
    IN  IF ms = {} THEN ""
        ELSE IF IsSourcePath(RefMarkerPath[d[last]][1]) THEN RefMarkerPath[d[last]][1]
        ELSE ""

\* of each line of a diff: the range [c, c+d] of a hunk header "+c,d", [c, c] of
\* "+c"; <<>> otherwise
RefRangeOf ==
    [line \in DiffLines |->
        IF \E h \in HunkSpans : line = HunkHeader(h.start, h.count)
        THEN LET h == CHOOSE h \in HunkSpans : line = HunkHeader(h.start, h.count)
             IN  <<h.start, h.start + h.count>>
        ELSE IF \E c \in HunkStarts : line = HunkHeaderNoCount(c)
        THEN LET c == CHOOSE c \in HunkStarts : line = HunkHeaderNoCount(c)
             IN  <<c, c>>
        ELSE <<>>]

RefRange(line) == RefRangeOf[line]

\* the ranges of the hunks among the first n lines of d that were processed
\* under f, one per hunk, in the order of the diff
RECURSIVE RefRanges(_, _, _)
RefRanges(d, n, f) ==
    IF n = 0 THEN <<>>
    ELSE IF RefRange(d[n]) # <<>> /\ RefCurrentFile(d, n) = f
         THEN Append(RefRanges(d, n - 1, f), RefRange(d[n]))
         ELSE RefRanges(d, n - 1, f)

\* C4: the list of every file is the ranges of the hunks processed under it,
\* one entry per hunk in the order of the diff, each a [start, end] pair:
\* nothing is merged, reordered or dropped as a duplicate.
C4_RangesInDiffOrder ==
    pc \in {"git_changed_lines", "raised"} =>
        /\ Range(changed_lines.keys) \subseteq NewPaths
        /\ \A f \in NewPaths : RangesOf(changed_lines, f) = RefRanges(diff, Len(diff), f)

\* three hunks under x.cpp: overlapping, identical and not in line order
C4_Witness ==
    /\ pc = "git_changed_lines"
    /\ diff = <<NewFileMarker("x.cpp"), HunkHeader(12, 3), HunkHeaderNoCount(15),
                HunkHeader(12, 3)>>
    /\ changed_lines.item["x.cpp"] = <<<<12, 15>>, <<15, 15>>, <<12, 15>>>>

\* index of the first hunk of d processed under f (0: none)
RefFirstHunk(d, f) ==
    LET hs == {i \in 1..Len(d) : RefRange(d[i]) # <<>> /\ RefCurrentFile(d, i) = f}
    IN  IF hs = {} THEN 0 ELSE CHOOSE i \in hs : \A j \in hs : i <= j

\* the paths of `fs` by the position of their first hunk in d
RECURSIVE RefOrder(_, _)
RefOrder(d, fs) ==
    IF fs = {} THEN <<>>
    ELSE LET f == CHOOSE f \in fs : \A g \in fs : RefFirstHunk(d, f) <= RefFirstHunk(d, g)
         IN  <<f>> \o RefOrder(d, fs \ {f})

\* one record per path with a hunk, by first hunk
RefDocument(d) ==
    LET order == RefOrder(d, {f \in NewPaths : RefFirstHunk(d, f) # 0})
    IN  [i \in 1..Len(order) |->
            [name |-> order[i], lines |-> RefRanges(d, Len(d), order[i])]]

\* C5: the document returned holds one record per source path that had a hunk
\* recorded, ordered by each path's first hunk; a path that had a marker but no
\* hunk is absent, no record has an empty list, and a path whose marker comes
\* twice has one record.
C5_OneRecordPerFileWithHunks ==
    (pc = "print" /\ commit # None) =>
        LET doc == RefDocument(diff)
        IN  /\ lines = line_filter(json_dumps(doc))
            /\ \A i \in 1..Len(doc) : doc[i].lines # <<>>
            /\ \A i, j \in 1..Len(doc) : doc[i].name = doc[j].name => i = j

\* y.h's hunk came before x.cpp's: two records, y.h first
C5_Witness ==
    /\ pc = "print"
    /\ diff = <<NewFileMarker("y.h"), HunkHeader(12, 3), NewFileMarker("x.cpp"),
                HunkHeader(7, 0)>>
    /\ lines = line_filter("[{\"name\": \"y.h\", \"lines\": [[12, 15]]}, "
                             \o "{\"name\": \"x.cpp\", \"lines\": [[7, 7]]}]")

(***************************************************************************)
(* Properties of tidy.                                                     *)
(***************************************************************************)
\* a line that starts with "/" and holds " warning: " after it
IsWarningLine(l) == startswith(l, "/") /\ find(l, " warning: ", 2) # 0

\* C6: tidy returns 0 if some line of clang-tidy's output is a warning line,
\* whichever line it is, and 1 otherwise.
C6_ExitZeroIffSomeLineWarns ==
    pc = "done" =>
        returned = <<IF \E l \in Range(split_sep(stdout, "\n")) : IsWarningLine(l)
                     THEN 0 ELSE 1>>

\* the annotation of a diagnostic: none unless it is an error or a warning with
\* a [rule]; the path loses the known prefix if and only if it starts with it
RefAnnotation(d) ==
    IF d.severity \notin {"error", "warning"} \/ d.rule = "" THEN <<>>
    ELSE <<"::" \o d.severity \o " file="
             \o (IF startswith(d.path, KnownPrefix)
                 THEN From(d.path, Len(KnownPrefix) + 1) ELSE d.path)
             \o ",line=" \o Decimal(d.line) \o ",col=" \o Decimal(d.col)
             \o ",title=" \o d.rule \o "::" \o d.message>>

RECURSIVE RefAnnotations(_)
RefAnnotations(ds) ==
    IF ds = <<>> THEN <<>> ELSE RefAnnotation(Head(ds)) \o RefAnnotations(Tail(ds))

\* the diagnostics that the output `out` of clang-tidy reports, in order: out is
\* ToolOutput(ds) for one ds only, and each of its lines ends with a newline
ReportedDiagnostics(out) ==
    LET ls == split_sep(out, "\n")
    IN  [i \in 1..(Len(ls) - 1) |-> CHOOSE d \in Diagnostics : DiagnosticLine(d) = ls[i]]

\* C7: in GitHub Actions every output line "<path>:<line>:<col>: <severity>:
\* <message> [<rule>]" with severity error or warning is printed as one
\* "::<severity> file=<path>,line=<line>,col=<col>,title=<rule>::<message>", in
\* output order, the known prefix removed from a path that starts with it; other
\* lines print nothing, and outside GitHub Actions nothing is annotated.
C7_AnnotationsOfDiagnostics ==
    pc = "done" =>
        printed = <<lines>> \o (IF in_gha THEN RefAnnotations(ReportedDiagnostics(stdout))
                                ELSE <<>>)

\* the diagnostics whose rule is made of the characters a-z, 0-9, "," and "-"
HasPlainRule(d) == \A i \in 1..Len(d.rule) : At(d.rule, i) \in RuleChars

RECURSIVE PlainRuled(_)
PlainRuled(ds) ==
    IF ds = <<>> THEN <<>>
    ELSE (IF HasPlainRule(Head(ds)) THEN <<Head(ds)>> ELSE <<>>) \o PlainRuled(Tail(ds))

\* C7 for the rules the pattern admits: the annotations printed are those of
\* the error and warning lines whose rule has no character outside a-z, 0-9,
\* "," and "-"; a line with another rule prints nothing.
C7_AnnotationsOfPlainRules ==
    pc = "done" =>
        printed = <<lines>> \o
            (IF in_gha THEN RefAnnotations(PlainRuled(ReportedDiagnostics(stdout)))
             ELSE <<>>)

\* a warning under the known prefix and an error elsewhere, annotated
C7_PlainRulesWitness ==
    /\ pc = "done"
    /\ in_gha
    /\ Len(printed) = 3
    /\ printed[2] = "::warning file=a.cpp,line=10,col=3,title=rule-x::unused variable"
    /\ printed[3] = "::error file=/tmp/__w/velox/velox/b.h,line=4,col=1,"
                      \o "title=clang-diagnostic-error::no member"

IsGitCall(c) == startswith(c, "git diff ")

IsTidyCall(c) == startswith(c, "xargs clang-tidy ")

\* C8: an "@@" line consumed while the current file is not empty whose new-side
\* start or count is no integer ends the run with a parsing error: nothing is
\* returned, not even the ranges of earlier hunks, and clang-tidy is never
\* run; an "@@" line consumed while the current file is empty never fails,
\* malformed or not.
C8_MalformedHunkFailsTheRun ==
    [][/\ pc # "raised"
       /\ \A line \in DiffLines :
            Consumes(line) =>
               /\ (file' # "" /\ \E b \in BadSpans : line = HunkHeaderOf(b)) =>
                      /\ pc' = "raised"
                      /\ exc' = "ValueError"
               /\ (file' = "" /\ startswith(line, "@@")) => (pc' = pc /\ exc' = "")
       /\ pc' = "raised" =>
              /\ lines' = Unset
              /\ returned' = <<>>
              /\ printed' = <<>>
              /\ \A i \in 1..Len(calls') : ~IsTidyCall(calls'[i])]_vars

\* a hunk was recorded, then a span with a bad count raised ValueError
C8_Witness ==
    /\ pc = "raised"
    /\ exc = "ValueError"
    /\ diff = <<NewFileMarker("x.cpp"), HunkHeader(12, 3), HunkHeaderOf("2,x")>>
    /\ changed_lines.item["x.cpp"] = <<<<12, 15>>>>
    /\ lines = Unset
    /\ calls = <<"git diff --text --unified=0 HEAD">>

\* the calls in order: git diff once if and only if a commit was given, then
\* clang-tidy once, with --line-filter if and only if a commit was given
CallsOfARun(n_tidy) ==
    /\ Len(calls) = (IF commit = None THEN 0 ELSE 1) + n_tidy
    /\ commit # None => IsGitCall(calls[1])
    /\ n_tidy = 1 =>
          /\ IsTidyCall(calls[Len(calls)])
          /\ (find(calls[Len(calls)], "--line-filter=", 1) # 0) <=> (commit # None)

\* C9 as claimed: in every run git diff is called once if a commit was given
\* and never otherwise, and clang-tidy is called exactly once.
C9_TidyCalledOnceInEveryRun ==
    pc \in {"done", "raised"} => CallsOfARun(1)

\* C9 as amended: git diff is called once if a commit was given and never
\* otherwise, at the start; clang-tidy is called at most once, after the line
\* filter is complete, exactly once in a run that returns and never in a run
\* that git_changed_lines fails; no call is repeated.
C9_CallsOnceInOrder ==
    /\ pc = "tidy" => calls = <<>>
    /\ pc \in {"git_changed_lines", "print", "run", "raised"} => CallsOfARun(0)
    /\ pc \in {"report", "done"} =>
          /\ CallsOfARun(1)
          /\ lines # Unset
          /\ endswith(calls[Len(calls)], " " \o lines)
    /\ pc = "raised" => (commit # None /\ lines = Unset)

\* a run with a commit that returned: git diff, then clang-tidy with the filter
C9_Witness ==
    /\ pc = "done"
    /\ status = 1
    /\ calls = <<"git diff --text --unified=0 HEAD",
                 "xargs clang-tidy -p=_build/release/ --format-style=file "
                   \o "-header-filter='.*' --quiet  '--line-filter=[]'">>

\* C10: two runs with the same clang-tidy output return the same status,
\* whatever the subprocess's exit status, the CI environment and the
\* annotations printed; an output with no warning line returns 1 also when the
\* subprocess failed.
C10_ExitStatusDependsOnOutputOnly ==
    pc = "done" =>
        /\ \A i \in 1..Len(prev) : prev[i].stdout = stdout => prev[i].returned = returned
        /\ (\A l \in Range(split_sep(stdout, "\n")) : ~IsWarningLine(l))
               => returned = <<1>>

\* the same output in and outside GitHub Actions, with exit statuses 1 and 0
C10_Witness ==
    /\ pc = "done"
    /\ prev # <<>>
    /\ prev[1].stdout = stdout
    /\ stdout # ""
    /\ prev[1].status # status
    /\ prev[1].in_gha # in_gha
    /\ prev[1].printed # printed
    /\ returned = <<0>>

====
